---- MODULE Spec2Model ----
(***************************************************************************)
(* Model of projects/packages/string/utils.ts (jood-common string helpers). *)
(*                                                                         *)
(* A text is a sequence of one-character strings.  Every exported function *)
(* the properties below are about is an operator computed the way the      *)
(* source computes it; a call is one step from pc = "call" to pc = "done". *)
(* refineSafeHtmlText (module-level _domParser) and toWordArray (its       *)
(* exec loop) are modelled as state machines of their own.                 *)
(***************************************************************************)
EXTENDS Integers, Sequences, FiniteSets, TLC

VARIABLES fn, args, ret, pc, _domParser, created, lastIndex, word, refine

vars == <<fn, args, ret, pc, _domParser, created, lastIndex, word, refine>>

(***************************************************************************)
(* Bounds of the model.                                                    *)
(***************************************************************************)
MaxLen == 4
MaxFindLen == 2
MaxTagLen == 6
MaxInsertLen == 3
MaxPadLen == 3
MaxPadNumber == 12
MaxExpectCount == 5
MaxCamelLen == 4
MaxLinesLen == 6
MaxAllow == 3
MaxIntDigits == 7
MaxFracDigits == 3
MaxFixed == 3
MaxWordsLen == 4
MaxSourceLen == 3
MaxParsers == 3

(***************************************************************************)
(* How a call ends: a returned value or a raised error.                    *)
(***************************************************************************)
Returned(v) == [threw |-> FALSE, val |-> v]

\* The name of the error, as a one-element sequence.
Thrown(e) == [threw |-> TRUE, val |-> <<e>>]

\* The value of ret while no call has returned.
NoRet == [threw |-> FALSE, val |-> <<>>]

(***************************************************************************)
(* JavaScript string primitives.                                           *)
(***************************************************************************)
Min(a, b) == IF a < b THEN a ELSE b

Max(a, b) == IF a < b THEN b ELSE a

\* All texts over alphabet cs of length at most n.
TextsUpTo(cs, n) == UNION {[1..k -> cs] : k \in 0..n}

\* String.prototype.substring(start, end): both offsets (0-based) are clamped
\* into [0, length] and swapped when start > end.
Substring(text, start, end) ==
  LET s == Min(Max(start, 0), Len(text))
      e == Min(Max(end, 0), Len(text))
  IN  SubSeq(text, Min(s, e) + 1, Max(s, e))

\* String.prototype.includes for a non-empty needle.
Contains(text, find) ==
  \E i \in 1..Len(text) : i + Len(find) - 1 <= Len(text)
                          /\ SubSeq(text, i, i + Len(find) - 1) = find

\* Array.prototype.join.
RECURSIVE Join(_, _)
Join(pieces, sep) ==
  IF pieces = <<>> THEN <<>>
  ELSE IF Len(pieces) = 1 THEN pieces[1]
  ELSE pieces[1] \o sep \o Join(Tail(pieces), sep)

\* A plausible slip: only the first occurrence of the separator splits
\* (what String.prototype.replace with a string pattern would touch).
SplitFirstOnly(text, sep, p, q) ==
  IF \E i \in q..Len(text) : i + Len(sep) - 1 <= Len(text)
                             /\ SubSeq(text, i, i + Len(sep) - 1) = sep
  THEN LET i == CHOOSE i \in q..Len(text) :
                  /\ i + Len(sep) - 1 <= Len(text)
                  /\ SubSeq(text, i, i + Len(sep) - 1) = sep
                  /\ \A j \in q..(i - 1) : SubSeq(text, j, j + Len(sep) - 1) # sep
       IN  << SubSeq(text, p, i - 1), SubSeq(text, i + Len(sep), Len(text)) >>
  ELSE << SubSeq(text, p, Len(text)) >>

\* String.prototype.split with a non-empty string separator: scan from the
\* left; p is where the current piece starts, q the scan position (1-based).
RECURSIVE SplitFrom(_, _, _, _)
SplitFrom(text, sep, p, q) ==
  IF q + Len(sep) - 1 > Len(text)
  THEN << SubSeq(text, p, Len(text)) >>
  ELSE IF SubSeq(text, q, q + Len(sep) - 1) = sep
       THEN << SubSeq(text, p, q - 1) >>
            \o SplitFrom(text, sep, q + Len(sep), q + Len(sep))
       ELSE SplitFrom(text, sep, p, q + 1)

Split(text, sep) == SplitFrom(text, sep, 1, 1)

(***************************************************************************)
(* replaceAll (utils.ts 14-22).                                            *)
(***************************************************************************)
replaceAll(text, find, replace) ==
  IF text = <<>> THEN text
  ELSE IF find = <<>> THEN text
  ELSE Join(Split(text, find), replace)

(***************************************************************************)
(* removeTag (utils.ts 29-36).                                             *)
(***************************************************************************)
\* Index of the first ">" after position i, 0 when there is none.
FirstGt(text, i) ==
  IF \E j \in (i + 1)..Len(text) : text[j] = ">"
  THEN CHOOSE j \in (i + 1)..Len(text) :
         text[j] = ">" /\ \A k \in (i + 1)..(j - 1) : text[k] # ">"
  ELSE 0

\* Where a match of /(<([^>]+)>)/ starting at i ends, 0 when none starts at i.
TagEnd(text, i) ==
  IF text[i] = "<" /\ FirstGt(text, i) >= i + 2 THEN FirstGt(text, i) ELSE 0

\* A plausible slip: the g flag missing, only the first match is removed.
StripTagsFirst(text, i) ==
  IF \E k \in i..Len(text) : TagEnd(text, k) > 0
  THEN LET k == CHOOSE k \in i..Len(text) :
                  TagEnd(text, k) > 0 /\ \A m \in i..(k - 1) : TagEnd(text, m) = 0
       IN  SubSeq(text, i, k - 1) \o SubSeq(text, TagEnd(text, k) + 1, Len(text))
  ELSE SubSeq(text, i, Len(text))

\* tagText.replace(/(<([^>]+)>)/gi, "") from position i on.
RECURSIVE StripTags(_, _)
StripTags(text, i) ==
  IF i > Len(text) THEN <<>>
  ELSE IF TagEnd(text, i) > 0 THEN StripTags(text, TagEnd(text, i) + 1)
  ELSE <<text[i]>> \o StripTags(text, i + 1)

removeTag(tagText, removeTabSpace) ==
  LET stripped == StripTags(tagText, 1)
  IN  IF removeTabSpace THEN replaceAll(stripped, <<"\t">>, <<>>) ELSE stripped

(***************************************************************************)
(* Values of the union types string | number, and the conversions used on  *)
(* them.                                                                   *)
(***************************************************************************)
Str(s) == [kind |-> "string", s |-> s, n |-> 0]

Num(n) == [kind |-> "number", s |-> <<>>, n |-> n]

\* A number that is not one (NaN), and a value that is neither string nor
\* number (null, an object).
NaN == [kind |-> "NaN", s |-> <<>>, n |-> 0]

Other == [kind |-> "other", s |-> <<>>, n |-> 0]

DigitChars == <<"0", "1", "2", "3", "4", "5", "6", "7", "8", "9">>

\* Number.prototype.toString of a non-negative integer below 1e21.
RECURSIVE DecimalDigits(_)
DecimalDigits(n) ==
  IF n < 10 THEN << DigitChars[n + 1] >>
  ELSE DecimalDigits(n \div 10) \o << DigitChars[(n % 10) + 1] >>

\* text.toString() / `${text}` of a string or a number.
ToStr(v) == IF v.kind = "number" THEN DecimalDigits(v.n) ELSE v.s

\* isNumber of ../number/utils, as the specification describes it: whether
\* the value represents a valid finite number.
IsDigit(c) == \E k \in 1..Len(DigitChars) : DigitChars[k] = c

IsNumeral(s) ==
  /\ s # <<>> /\ IsDigit(s[1])
  /\ \A k \in 1..Len(s) : IsDigit(s[k]) \/ s[k] = "."
  /\ Cardinality({k \in 1..Len(s) : s[k] = "."}) <= 1

isNumber(v) == v.kind = "number" \/ (v.kind = "string" /\ IsNumeral(v.s))

\* Number(s) of a string of decimal digits.
RECURSIVE ParseDigits(_)
ParseDigits(s) ==
  IF s = <<>> THEN 0
  ELSE 10 * ParseDigits(SubSeq(s, 1, Len(s) - 1))
       + ((CHOOSE k \in 1..Len(DigitChars) : DigitChars[k] = s[Len(s)]) - 1)

\* Array.from(Array(count)).map(() => x): count copies of x.  Array(count)
\* raises a RangeError for a negative count; callers test ArrayThrows first.
ArrayThrows(count) == count < 0

ArrayOf(count, x) == [k \in 1..count |-> x]

(***************************************************************************)
(* insert (utils.ts 90-104).                                               *)
(***************************************************************************)
\* A plausible slip: the tail starts one character too late.
insertTailOffByOne(text, index, addText) ==
  IF isNumber(index)
  THEN LET textLen == Len(text)
           safeIndex == IF index.n < 0 THEN 0 ELSE Min(index.n, textLen)
       IN  Substring(text, 0, safeIndex) \o addText
           \o Substring(text, safeIndex + 1, textLen)
  ELSE text

insert(text, index, addText) ==
  IF isNumber(index)
  THEN LET textLen == Len(text)
           safeIndex == IF index.n < 0 THEN 0 ELSE Min(index.n, textLen)
           head == Substring(text, 0, safeIndex)
           tail == Substring(text, safeIndex, textLen)
       IN  head \o addText \o tail
  ELSE text

(***************************************************************************)
(* padStart (utils.ts 112-131) and padEnd (utils.ts 139-158).              *)
(***************************************************************************)
padStart(text, addText, expectCount) ==
  IF text.kind \in {"string", "number"}
  THEN LET len == Len(ToStr(text))
           count == expectCount - len
       IN  IF ArrayThrows(count) THEN Thrown("RangeError")
           ELSE LET adds == ArrayOf(count, addText)
                    joined == Join(adds, <<>>) \o ToStr(text)
                IN  Returned(IF expectCount < Len(joined)
                             THEN Substring(joined, Len(joined) - expectCount,
                                            Len(joined))
                             ELSE joined)
  ELSE Returned(text)

padEnd(text, addText, expectCount) ==
  IF text.kind \in {"string", "number"}
  THEN LET len == Len(ToStr(text))
           count == expectCount - len
       IN  IF ArrayThrows(count) THEN Thrown("RangeError")
           ELSE LET adds == ArrayOf(count, addText)
                    joined == ToStr(text) \o Join(adds, <<>>)
                IN  Returned(IF expectCount < Len(joined)
                             THEN Substring(joined, 0, expectCount)
                             ELSE joined)
  ELSE Returned(text)

(***************************************************************************)
(* toCamelFromSnake (utils.ts 52-56), toCamelFromKebab (utils.ts 62-66).   *)
(***************************************************************************)
LowerChars == <<"a", "b", "z">>

UpperChars == <<"A", "B", "Z">>

IsLower(c) == \E k \in 1..Len(LowerChars) : LowerChars[k] = c

IsUpper(c) == \E k \in 1..Len(UpperChars) : UpperChars[k] = c

\* String.prototype.toUpperCase, one character.
ToUpperChar(c) ==
  IF IsLower(c)
  THEN UpperChars[CHOOSE k \in 1..Len(LowerChars) : LowerChars[k] = c]
  ELSE c

ToUpperCase(text) == [k \in 1..Len(text) |-> ToUpperChar(text[k])]

\* A plausible slip: the class [a-z] without the i flag.
LowerOnlyClass(c) == IsLower(c)

\* The class [a-z] of /([_][a-z])/gi and /([-][a-z])/gi: with the i flag it
\* matches a letter of either case.
LetterClassI(c) == IsLower(c) \/ IsUpper(c)

\* String.prototype.replace with a string pattern: the first occurrence only.
ReplaceFirst(text, find, replace) ==
  IF Contains(text, find)
  THEN LET i == CHOOSE i \in 1..Len(text) :
                  /\ i + Len(find) - 1 <= Len(text)
                  /\ SubSeq(text, i, i + Len(find) - 1) = find
                  /\ \A j \in 1..(i - 1) : SubSeq(text, j, j + Len(find) - 1) # find
       IN  SubSeq(text, 1, i - 1) \o replace
           \o SubSeq(text, i + Len(find), Len(text))
  ELSE text

\* text.replace(/([sep][a-z])/gi, $1 => $1.toUpperCase().replace(sep, ""))
\* from position i on.
RECURSIVE CamelFrom(_, _, _)
CamelFrom(text, sep, i) ==
  IF i > Len(text) THEN <<>>
  ELSE IF text[i] = sep /\ i + 1 <= Len(text) /\ LetterClassI(text[i + 1])
       THEN ReplaceFirst(ToUpperCase(SubSeq(text, i, i + 1)), <<sep>>, <<>>)
            \o CamelFrom(text, sep, i + 2)
       ELSE <<text[i]>> \o CamelFrom(text, sep, i + 1)

toCamelFromSnake(text) == CamelFrom(text, "_", 1)

toCamelFromKebab(text) == CamelFrom(text, "-", 1)

(***************************************************************************)
(* toCurrencyFormat (utils.ts 198-236).                                    *)
(***************************************************************************)
\* A plausible slip: the lookahead without its +, (?=\d{3}\.), which marks
\* only the last group of three.
OneGroupAhead(s, i) ==
  /\ i + 4 <= Len(s)
  /\ \A j \in (i + 1)..(i + 3) : IsDigit(s[j])
  /\ s[i + 4] = "."

\* The lookahead (?=(\d{3})+\.) after position i: one or more groups of
\* three digits, then a ".".
GroupsOfThreeAhead(s, i) ==
  \E k \in 1..Len(s) :
    /\ i + 3 * k + 1 <= Len(s)
    /\ \A j \in (i + 1)..(i + 3 * k) : IsDigit(s[j])
    /\ s[i + 3 * k + 1] = "."

\* s.replace(/\d(?=(\d{3})+\.)/g, `$&${replaceChar}`) from position i on.
RECURSIVE MarkThousands(_, _, _)
MarkThousands(s, replaceChar, i) ==
  IF i > Len(s) THEN <<>>
  ELSE (IF IsDigit(s[i]) /\ GroupsOfThreeAhead(s, i)
        THEN <<s[i]>> \o replaceChar
        ELSE <<s[i]>>)
       \o MarkThousands(s, replaceChar, i + 1)

\* Number.prototype.toFixed(1) of a non-negative integer below 1e21.
ToFixed1(n) == DecimalDigits(n) \o <<".", "0">>

toCurrencyFormat(price, fixed, replaceChar) ==
  IF ~isNumber(price) THEN ToStr(price)
  ELSE
    LET safeStr == ToStr(price)
        splits == Split(safeStr, <<".">>)
        marked == MarkThousands(ToFixed1(ParseDigits(splits[1])), replaceChar, 1)
        normal == Substring(marked, 0, Len(marked) - 2)
        hasPoint == Contains(safeStr, <<".">>)
        decimal == IF hasPoint THEN splits[2] ELSE <<>>
        decimalLen == Len(decimal)
    IN  IF 0 < fixed
        THEN normal \o <<".">>
             \o (IF decimalLen < fixed
                 THEN decimal \o Join(ArrayOf(fixed - decimalLen, <<"0">>), <<>>)
                 ELSE Substring(decimal, 0, fixed))
        ELSE IF hasPoint THEN normal \o <<".">> \o decimal ELSE normal

(***************************************************************************)
(* collapseMultiline (utils.ts 352-370).                                   *)
(***************************************************************************)
\* The class \s, as far as the modelled alphabet goes.
IsSpace(c) == c \in {" ", "\t", "\n"}

\* !/[^\s]/.test(str)
IsBreak(str) == \A k \in 1..Len(str) : IsSpace(str[k])

\* A plausible slip: the counter is not reset by a non-blank line.
RECURSIVE CollapseNoReset(_, _, _, _)
CollapseNoReset(separate, allow, i, cnt) ==
  IF i > Len(separate) THEN <<>>
  ELSE IF IsBreak(separate[i])
       THEN (IF cnt + 1 < allow THEN <<separate[i]>> ELSE <<>>)
            \o CollapseNoReset(separate, allow, i + 1, cnt + 1)
       ELSE <<separate[i]>> \o CollapseNoReset(separate, allow, i + 1, cnt)

\* The forEach callback applied to separate[i..], cnt being the counter on
\* entry; the result is what is pushed onto refine.
RECURSIVE CollapseFrom(_, _, _, _)
CollapseFrom(separate, allow, i, cnt) ==
  IF i > Len(separate) THEN <<>>
  ELSE IF IsBreak(separate[i])
       THEN (IF cnt + 1 < allow THEN <<separate[i]>> ELSE <<>>)
            \o CollapseFrom(separate, allow, i + 1, cnt + 1)
       ELSE <<separate[i]>> \o CollapseFrom(separate, allow, i + 1, 0)

\* The array refine when the forEach is over.
collapseLines(text, allow) == CollapseFrom(Split(text, <<"\n">>), allow, 1, 0)

collapseMultiline(text, allow) == Join(collapseLines(text, allow), <<"\n">>)

(***************************************************************************)
(* Inputs.                                                                 *)
(***************************************************************************)
ReplaceChars == {"a", "b"}

TagChars == {"<", ">", "a", "\t"}

ReplaceAllArgs ==
  [text : TextsUpTo(ReplaceChars, MaxLen),
   find : TextsUpTo(ReplaceChars, MaxFindLen),
   replace : TextsUpTo(ReplaceChars, MaxFindLen)]

InsertChars == {"a", "b"}

InsertArgs ==
  [text : TextsUpTo(InsertChars, MaxInsertLen),
   index : {Num(n) : n \in (0 - 2)..(MaxInsertLen + 2)} \cup {NaN},
   addText : TextsUpTo({"X"}, 2)]

PadArgs ==
  [text : {Str(t) : t \in TextsUpTo({"a", "1"}, MaxPadLen)}
          \cup {Num(n) : n \in 0..MaxPadNumber} \cup {Other},
   addText : TextsUpTo({"0", "x"}, 2),
   expectCount : 0..MaxExpectCount]

CamelChars == {"_", "-", "a", "A", "1"}

CamelArgs == [text : TextsUpTo(CamelChars, MaxCamelLen)]

LineChars == {"\n", " ", "a"}

CollapseArgs == [text : TextsUpTo(LineChars, MaxLinesLen), allow : 0..MaxAllow]

\* Integer parts as String(number) writes them (no leading zero), and one
\* text that is no number.
IntParts ==
  {<<"0">>, <<"a">>}
  \cup {<<"1">> \o t : t \in TextsUpTo({"0", "2"}, MaxIntDigits - 1)}

CurrencyArgs ==
  [int : IntParts, point : BOOLEAN, frac : TextsUpTo({"0", "5"}, MaxFracDigits),
   fixed : 0..MaxFixed, replaceChar : {<<",">>, <<" ", " ">>}]

\* The price argument of a toCurrencyFormat call, as a string.
PriceOf(a) == Str(IF a.point THEN a.int \o <<".">> \o a.frac ELSE a.int)

RemoveTagArgs ==
  [tagText : TextsUpTo(TagChars, MaxTagLen), removeTabSpace : BOOLEAN]

(***************************************************************************)
(* Pure calls: Init draws the function and its arguments, the action       *)
(* applies the function.                                                   *)
(***************************************************************************)
Idle == /\ _domParser = 0 /\ created = 0
        /\ lastIndex = 0 /\ word = <<>> /\ refine = <<>>

Init ==
  /\ pc = "call" /\ ret = NoRet /\ Idle
  /\ \/ fn = "replaceAll" /\ args \in ReplaceAllArgs
     \/ fn = "removeTag" /\ args \in RemoveTagArgs
     \/ fn = "insert" /\ args \in InsertArgs
     \/ fn = "collapseMultiline" /\ args \in CollapseArgs
     \/ fn = "toCurrencyFormat" /\ args \in CurrencyArgs /\ (args.point \/ args.frac = <<>>)
     \/ fn \in {"padStart", "padEnd"} /\ args \in PadArgs
     \/ fn \in {"toCamelFromSnake", "toCamelFromKebab"} /\ args \in CamelArgs

Finish(v) ==
  /\ pc = "call"
  /\ pc' = "done"
  /\ ret' = v
  /\ UNCHANGED <<fn, args, _domParser, created, lastIndex, word, refine>>

CallReplaceAll ==
  fn = "replaceAll"
  /\ Finish(Returned(replaceAll(args.text, args.find, args.replace)))

CallRemoveTag ==
  fn = "removeTag"
  /\ Finish(Returned(removeTag(args.tagText, args.removeTabSpace)))

CallInsert ==
  fn = "insert"
  /\ Finish(Returned(insert(args.text, args.index, args.addText)))

CallPadStart ==
  fn = "padStart"
  /\ Finish(padStart(args.text, args.addText, args.expectCount))

CallPadEnd ==
  fn = "padEnd"
  /\ Finish(padEnd(args.text, args.addText, args.expectCount))

CallToCamelFromSnake ==
  fn = "toCamelFromSnake" /\ Finish(Returned(toCamelFromSnake(args.text)))

CallToCamelFromKebab ==
  fn = "toCamelFromKebab" /\ Finish(Returned(toCamelFromKebab(args.text)))

CallCollapseMultiline ==
  /\ fn = "collapseMultiline" /\ pc = "call"
  /\ pc' = "done"
  /\ refine' = collapseLines(args.text, args.allow)
  /\ ret' = Returned(collapseMultiline(args.text, args.allow))
  /\ UNCHANGED <<fn, args, _domParser, created, lastIndex, word>>

CallToCurrencyFormat ==
  fn = "toCurrencyFormat"
  /\ Finish(Returned(toCurrencyFormat(PriceOf(args), args.fixed, args.replaceChar)))

Next ==
  \/ CallCollapseMultiline
  \/ CallToCurrencyFormat
  \/ CallReplaceAll
  \/ CallRemoveTag
  \/ CallInsert
  \/ CallPadStart
  \/ CallPadEnd
  \/ CallToCamelFromSnake
  \/ CallToCamelFromKebab

Spec == Init /\ [][Next]_vars

(***************************************************************************)
(* toWordArray (utils.ts 72-82): the exec loop, one step per statement.    *)
(***************************************************************************)
\* \s* from offset from (0-based): the offset where the longest run of
\* whitespace that starts there ends.
SpaceRunEnd(text, from) ==
  CHOOSE j \in from..Len(text) :
    /\ \A k \in (from + 1)..j : IsSpace(text[k])
    /\ j = Len(text) \/ ~IsSpace(text[j + 1])

\* \S* from offset from: where the longest run of non-whitespace ends.
WordRunEnd(text, from) ==
  CHOOSE j \in from..Len(text) :
    /\ \A k \in (from + 1)..j : ~IsSpace(text[k])
    /\ j = Len(text) \/ IsSpace(text[j + 1])

\* strReg.exec(text) for /\s*\S*/g with strReg.lastIndex = from: the match
\* and the new lastIndex.  The pattern matches the empty string, so exec
\* returns null only for from > text.length.
RegExec(text, from) ==
  LET e == WordRunEnd(text, SpaceRunEnd(text, from))
  IN  [isNull |-> from > Len(text),
       match |-> SubSeq(text, from + 1, e),
       lastIndex |-> e]

\* A plausible slip: the .trim() left out.
TrimNothing(s) == s

\* String.prototype.trim.
Trim(s) ==
  IF IsBreak(s) THEN <<>>
  ELSE LET first == CHOOSE i \in 1..Len(s) :
                      ~IsSpace(s[i]) /\ \A k \in 1..(i - 1) : IsSpace(s[k])
           last == CHOOSE j \in 1..Len(s) :
                     ~IsSpace(s[j]) /\ \A k \in (j + 1)..Len(s) : IsSpace(s[k])
       IN  SubSeq(s, first, last)

WordChars == {" ", "\n", "a", "b"}

WordInit ==
  /\ fn = "toWordArray" /\ args \in [text : TextsUpTo(WordChars, MaxWordsLen)]
  /\ pc = "l75" /\ ret = NoRet
  /\ _domParser = 0 /\ created = 0
  /\ lastIndex = 0 /\ word = <<>> /\ refine = <<>>

\* Lines 73-75 and, from the loop body, line 79: word = exec(text)[0].trim()
ExecAndTrim ==
  LET m == RegExec(args.text, lastIndex)
  IN  IF m.isNull
      THEN /\ pc' = "done" /\ ret' = Thrown("TypeError")
           /\ UNCHANGED <<word, lastIndex>>
      ELSE /\ pc' = "l76" /\ word' = Trim(m.match) /\ lastIndex' = m.lastIndex
           /\ UNCHANGED ret

WordFirstExec ==
  /\ pc = "l75"
  /\ ExecAndTrim
  /\ UNCHANGED <<fn, args, _domParser, created, refine>>

\* Lines 76-77, 81: while (word) { if (word === "") break; ... } return refine
WordTest ==
  /\ pc = "l76"
  /\ IF word # <<>>
     THEN pc' = "l78" /\ UNCHANGED ret
     ELSE pc' = "done" /\ ret' = Returned(refine)
  /\ UNCHANGED <<fn, args, _domParser, created, lastIndex, word, refine>>

\* Lines 78-79.
WordPush ==
  /\ pc = "l78"
  /\ refine' = Append(refine, word)
  /\ ExecAndTrim
  /\ UNCHANGED <<fn, args, _domParser, created>>

WordNext == WordFirstExec \/ WordTest \/ WordPush

\* The loop runs to completion once toWordArray is called.
FairSpec == WordInit /\ [][WordNext]_vars /\ WF_vars(WordNext)

(***************************************************************************)
(* refineSafeHtmlText (utils.ts 285-302): calls one after another on the   *)
(* module-level _domParser (0 is null, k > 0 the k-th DOMParser built).    *)
(* created counts the assignments to _domParser.  Whether the DOMParser    *)
(* constructor and parseFromString fail, and the text content of the       *)
(* parsed body, are the host's to decide.                                  *)
(***************************************************************************)
\* A plausible slip: the null test left out, a parser built on every call.
AlwaysNewParser(cur, ctorFails, fresh) == IF ctorFails THEN cur ELSE fresh

\* Line 295: if (!_domParser) _domParser = new DOMParser();
NextParser(cur, ctorFails, fresh) ==
  IF cur = 0 THEN (IF ctorFails THEN 0 ELSE fresh) ELSE cur

HtmlSources == TextsUpTo({"a", "&"}, MaxSourceLen)

HtmlContents == TextsUpTo({"a"}, MaxSourceLen)

HtmlInit ==
  /\ fn = "refineSafeHtmlText" /\ pc = "call" /\ ret = NoRet
  /\ args = [source |-> <<>>, ctorFails |-> FALSE, parseFails |-> FALSE]
  /\ _domParser = 0 /\ created = 0
  /\ lastIndex = 0 /\ word = <<>> /\ refine = <<>>

RefineSafeHtmlText(source, ctorFails, parseFails, textContent) ==
  LET parser == NextParser(_domParser, ctorFails, created + 1)
      constructs == parser # _domParser
      caught == (_domParser = 0 /\ ctorFails) \/ parseFails
  IN  /\ created < MaxParsers \/ ~constructs
      /\ args' = [source |-> source, ctorFails |-> ctorFails,
                  parseFails |-> parseFails]
      /\ _domParser' = parser
      /\ created' = IF constructs THEN created + 1 ELSE created
      /\ ret' = Returned(IF caught THEN source ELSE textContent)
      /\ pc' = "done"
      /\ UNCHANGED <<fn, lastIndex, word, refine>>

HtmlNext ==
  \E source \in HtmlSources, ctorFails \in BOOLEAN, parseFails \in BOOLEAN,
     textContent \in HtmlContents :
    RefineSafeHtmlText(source, ctorFails, parseFails, textContent)

HtmlSpec == HtmlInit /\ [][HtmlNext]_vars

(***************************************************************************)
(* Properties.                                                             *)
(***************************************************************************)
Done(f) == fn = f /\ pc = "done"

\* C1 (as stated): for a non-empty find and a replace that does not contain
\* find, the result of replaceAll contains no occurrence of find at all, not
\* even one formed by joining the pieces around a removed match.
C1_NoOccurrenceLeft ==
  (Done("replaceAll") /\ args.find # <<>> /\ ~Contains(args.replace, args.find))
    => ~Contains(ret.val, args.find)

\* C1 (amended): under the same conditions no piece of text kept between the
\* replaced matches contains find, and when find is one character long (so
\* that no occurrence can be formed across a join) the result contains no
\* occurrence of find.
C1_NoOccurrenceInPieces ==
  (Done("replaceAll") /\ args.text # <<>> /\ args.find # <<>>
     /\ ~Contains(args.replace, args.find))
    => /\ \A k \in 1..Len(Split(args.text, args.find)) :
            ~Contains(Split(args.text, args.find)[k], args.find)
       /\ Len(args.find) = 1 => ~Contains(ret.val, args.find)

\* A replaceAll call that replaced two matches of a one-character find.
C1_Witness ==
  /\ Done("replaceAll")
  /\ args.text = <<"a", "b", "a", "b">> /\ args.find = <<"b">>
  /\ args.replace = <<"a", "a">>
  /\ ret.val = <<"a", "a", "a", "a", "a", "a">>

HasTag(s) ==
  \E i \in 1..Len(s) : \E j \in (i + 2)..Len(s) :
    s[i] = "<" /\ s[j] = ">" /\ \A k \in (i + 1)..(j - 1) : s[k] # ">"

\* C9: the result of removeTag contains no "<", one or more non-">"
\* characters, ">" substring; with removeTabSpace it contains no tab; and
\* removeTag applied to its own result returns it unchanged.
C9_NoTagLeftAndIdempotent ==
  Done("removeTag")
    => /\ ~HasTag(ret.val)
       /\ args.removeTabSpace => \A k \in 1..Len(ret.val) : ret.val[k] # "\t"
       /\ removeTag(ret.val, args.removeTabSpace) = ret.val

\* A removeTag call that removed a tag holding a nested "<", and a tab.
C9_Witness ==
  /\ Done("removeTag") /\ args.removeTabSpace
  /\ args.tagText = <<"<", "<", "a", ">", "\t">>
  /\ ret.val = <<>>

\* C2 (as stated): for a string or number text, a non-empty addText and
\* expectCount >= 1, padStart and padEnd return a string of length exactly
\* expectCount.
C2_PadLengthIsExpectCount ==
  ((Done("padStart") \/ Done("padEnd"))
     /\ args.text.kind \in {"string", "number"}
     /\ args.addText # <<>> /\ args.expectCount >= 1)
    => (~ret.threw /\ Len(ret.val) = args.expectCount)

\* C3 (as stated): when 1 <= expectCount <= length of text's string form,
\* padStart returns (raising nothing) the last expectCount characters of the
\* text and padEnd the first expectCount characters.
C3_PadTruncatesWithoutError ==
  ((Done("padStart") \/ Done("padEnd"))
     /\ args.text.kind \in {"string", "number"}
     /\ args.expectCount >= 1 /\ args.expectCount <= Len(ToStr(args.text)))
    => /\ ~ret.threw
       /\ ret.val =
            IF fn = "padStart"
            THEN SubSeq(ToStr(args.text),
                        Len(ToStr(args.text)) - args.expectCount + 1,
                        Len(ToStr(args.text)))
            ELSE SubSeq(ToStr(args.text), 1, args.expectCount)

\* The text of a camel call with the separator of the called function.
CamelSep == IF fn = "toCamelFromSnake" THEN "_" ELSE "-"

\* Whether c is a letter the transformation applies to: a lowercase letter,
\* or with anyCase a letter of either case.
Follows(c, anyCase) == IsLower(c) \/ (anyCase /\ IsUpper(c))

\* The output described position by position: a separator followed by such
\* a letter is dropped, that letter is uppercased, every other character
\* stays as it is.
RECURSIVE CamelExpected(_, _, _, _)
CamelExpected(text, sep, anyCase, i) ==
  IF i > Len(text) THEN <<>>
  ELSE (IF text[i] = sep /\ i < Len(text) /\ Follows(text[i + 1], anyCase)
        THEN <<>>
        ELSE IF i > 1 /\ text[i - 1] = sep /\ Follows(text[i], anyCase)
             THEN << ToUpperChar(text[i]) >>
             ELSE << text[i] >>)
       \o CamelExpected(text, sep, anyCase, i + 1)

\* C4 (as stated): only a separator immediately followed by a lowercase
\* letter is transformed (separator removed, letter uppercased); a separator
\* followed by a digit or an uppercase letter stays, as does every other
\* character.
C4_OnlyLowercaseAfterSeparator ==
  (Done("toCamelFromSnake") \/ Done("toCamelFromKebab"))
    => ret.val = CamelExpected(args.text, CamelSep, FALSE, 1)

\* C4 (amended): a separator immediately followed by an ASCII letter of
\* either case is removed and that letter is uppercased (an uppercase letter
\* stays as it is, so "_A" becomes "A"); a separator followed by a digit
\* stays, as does every other character.
C4_AnyLetterAfterSeparator ==
  (Done("toCamelFromSnake") \/ Done("toCamelFromKebab"))
    => ret.val = CamelExpected(args.text, CamelSep, TRUE, 1)

\* A toCamelFromKebab call on "-A-1": the uppercase letter loses its
\* separator, the digit keeps it.
C4_Witness ==
  /\ Done("toCamelFromKebab")
  /\ args.text = <<"-", "A", "-", "1">>
  /\ ret.val = <<"A", "-", "1">>

\* C10: for a numeric index, insert returns the first k characters of text,
\* addText, then the rest of text, with k the index clamped into
\* [0, text.length]; for an index that is not a valid number it returns text.
C10_InsertAtClampedIndex ==
  Done("insert")
    => IF args.index.kind = "number"
       THEN \E k \in 0..Len(args.text) :
              /\ k = (IF args.index.n < 0 THEN 0
                      ELSE IF args.index.n > Len(args.text) THEN Len(args.text)
                      ELSE args.index.n)
              /\ ret.val = SubSeq(args.text, 1, k) \o args.addText
                           \o SubSeq(args.text, k + 1, Len(args.text))
       ELSE ret.val = args.text

\* An insert call in the middle of the text.
C10_Witness ==
  /\ Done("insert")
  /\ args.text = <<"a", "b", "b">> /\ args.index = Num(1)
  /\ args.addText = <<"X">>
  /\ ret.val = <<"a", "X", "b", "b">>

\* The blank lines of a list of lines removed.
NonBlank(lines) == SelectSeq(lines, LAMBDA str : ~IsBreak(str))

\* How many blank lines end at position i of lines, i included (0 when
\* line i is not blank).
BlankRank(lines, i) ==
  i - (CHOOSE m \in 0..i :
         /\ m = 0 \/ ~IsBreak(lines[m])
         /\ \A k \in (m + 1)..i : IsBreak(lines[k]))

\* The lines at the positions of keep, in order.
RECURSIVE Pick(_, _, _)
Pick(lines, keep, i) ==
  IF i > Len(lines) THEN <<>>
  ELSE (IF i \in keep THEN <<lines[i]>> ELSE <<>>) \o Pick(lines, keep, i + 1)

\* C6: the lines collapseMultiline keeps hold every non-blank line of text in
\* the original order; no run of consecutive blank lines among them is longer
\* than allow - 1; the blank lines kept are the first ones of each run of the
\* input (a non-blank line starts the count again); the output is those
\* lines joined by newlines.
C6_BlankRunsAtMostAllowMinusOne ==
  Done("collapseMultiline")
    => LET separate == Split(args.text, <<"\n">>)
       IN  /\ NonBlank(refine) = NonBlank(separate)
           /\ \A i \in 1..Len(refine) : \A j \in i..Len(refine) :
                (\A k \in i..j : IsBreak(refine[k])) => j - i + 1 <= args.allow - 1
           /\ refine = Pick(separate,
                            {i \in 1..Len(separate) :
                               \/ ~IsBreak(separate[i])
                               \/ BlankRank(separate, i) < args.allow}, 1)
           /\ refine # <<>> => Split(ret.val, <<"\n">>) = refine

\* collapseMultiline("a\n\n\n\na", 2): one of the three blank lines is kept.
C6_Witness ==
  /\ Done("collapseMultiline") /\ args.allow = 2
  /\ args.text = <<"a", "\n", "\n", "\n", "\n", "a">>
  /\ ret.val = <<"a", "\n", "\n", "a">>

\* The digits grouped in threes from the right, sep between the groups.
RECURSIVE Grouped(_, _)
Grouped(digits, sep) ==
  IF Len(digits) <= 3 THEN digits
  ELSE Grouped(SubSeq(digits, 1, Len(digits) - 3), sep) \o sep
       \o SubSeq(digits, Len(digits) - 2, Len(digits))

\* C7: for a price in plain decimal digits with an optional fractional part
\* and fixed > 0, toCurrencyFormat returns the integer part with replaceChar
\* between every group of three digits counted from the right, then ".",
\* then exactly fixed digits: the first fixed digits of the fractional part,
\* right-padded with "0".
C7_GroupedIntegerFixedFraction ==
  (Done("toCurrencyFormat") /\ IsNumeral(args.int) /\ args.fixed > 0)
    => ret.val = Grouped(args.int, args.replaceChar) \o <<".">>
                 \o [k \in 1..args.fixed |->
                       IF k <= Len(args.frac) THEN args.frac[k] ELSE "0"]

\* toCurrencyFormat("1200000.5", {fixed: 2}) is "1,200,000.50".
C7_Witness ==
  /\ Done("toCurrencyFormat")
  /\ args.int = <<"1", "2", "0", "0", "0", "0", "0">> /\ args.point
  /\ args.frac = <<"5">> /\ args.fixed = 2 /\ args.replaceChar = <<",">>
  /\ ret.val = <<"1", ",", "2", "0", "0", ",", "0", "0", "0", ".", "5", "0">>

\* The maximal runs of non-whitespace characters of text that start at
\* position i or later, from left to right.
RECURSIVE MaximalRuns(_, _)
MaximalRuns(text, i) ==
  IF i > Len(text) THEN <<>>
  ELSE (IF ~IsSpace(text[i]) /\ (i = 1 \/ IsSpace(text[i - 1]))
        THEN << SubSeq(text, i,
                       CHOOSE j \in i..Len(text) :
                         /\ \A k \in i..j : ~IsSpace(text[k])
                         /\ j = Len(text) \/ IsSpace(text[j + 1])) >>
        ELSE <<>>)
       \o MaximalRuns(text, i + 1)

\* C5: the loop of toWordArray terminates, and it returns exactly the maximal
\* runs of non-whitespace characters of text, from left to right (none of
\* them empty; the empty list for an empty or all-whitespace text).
C5_TerminatesWithMaximalRuns ==
  (pc = "l75") ~> (pc = "done" /\ ret = Returned(MaximalRuns(args.text, 1)))

\* toWordArray(" a\nb") has returned ["a", "b"].
C5_Witness ==
  /\ Done("toWordArray")
  /\ args.text = <<" ", "a", "\n", "b">>
  /\ ret = Returned(<< <<"a">>, <<"b">> >>)

\* C8: over any sequence of refineSafeHtmlText calls, failing ones included,
\* _domParser is assigned at most once and keeps that handle ever after; a
\* call in which building the parser or parsing fails returns its source
\* unchanged and raises nothing, and leaves an initialized handle as it is.
C8_ParserSetOnceFailureReturnsSource ==
  [][/\ _domParser # 0 => _domParser' = _domParser
     /\ created' <= 1
     /\ ~ret'.threw
     /\ ((_domParser = 0 /\ args'.ctorFails) \/ args'.parseFails)
          => ret'.val = args'.source]_vars

\* A call whose parsing failed after the parser had been set: the source is
\* returned and the handle is still the first one.
C8_Witness ==
  /\ Done("refineSafeHtmlText")
  /\ _domParser = 1 /\ created = 1
  /\ args.parseFails /\ args.source = <<"&", "a">>
  /\ ret = Returned(args.source)

====
